---- MODULE Spec2Model ----
(***************************************************************************)
(* Vaani Sentinel: the scheduled-post lifecycle (agents/scheduler.py) and  *)
(* the security guard with its kill switch and encryption layer            *)
(* (agents/security_guard.py, kill_switch.py).                             *)
(***************************************************************************)
EXTENDS Integers, Sequences, FiniteSets, TLC

(***************************************************************************)
(* Bound of the model: the number of operations (calls of schedule_post,   *)
(* cancel_scheduled_post, reschedule_post, process_scheduled_posts, the    *)
(* kill switch, ..., and clock ticks) in one behaviour.  The size of the   *)
(* store, the number of sweeps in flight and the clock are bounded by it.  *)
(***************************************************************************)
MaxOps == 4

(***************************************************************************)
(* Bound on the number of records of a scheduled_posts.json found on disk  *)
(* when a SchedulerPublisher is constructed.                               *)
(***************************************************************************)
MaxRecords == 2

VARIABLES
    scheduled_posts,   \* SchedulerPublisher.scheduled_posts, in insertion order
    metadata_heap,     \* the dict objects the posts' metadata fields refer to
    posts_file,        \* scheduler_db/scheduled_posts.json
    now,               \* datetime.utcnow()
    sweeps,            \* the suspended process_scheduled_posts coroutines, oldest first
    publish_calls,     \* simulate_publish invocations, per post
    returned,          \* what the call that completed last returned or raised
    kill_switch_file,  \* ./kill_switch.json, the sentinel
    kill_switch_events,\* logs/kill_switch_events.json
    emergency_backup,  \* emergency_backup/emergency_backup_<timestamp>/
    guards,            \* the SecurityGuard instances alive; the first is the module's
    last_switch,       \* per instance, the last kill-switch call made on it
    security_events,   \* logs/security/security_events_<day>.json
    analysis_log,      \* logs/security/security_analysis_<day>.json
    key_file,          \* config/encryption.key
    vault,             \* the (ciphertext, checksum) pairs encrypt_content returned
    archives,          \* archives/encrypted_<language>/archive_<language>_<time>.enc
    rate_limits,       \* AIModelManager.rate_limits of the module's ai_manager
    runs,              \* history: the sweeps run alone and in immediate succession
    ops                \* operations performed so far

sched_vars ==
    <<scheduled_posts, metadata_heap, posts_file, now, sweeps, publish_calls>>

switch_vars == <<kill_switch_file, kill_switch_events, emergency_backup>>

guard_vars == <<guards, last_switch, security_events, analysis_log>>

crypto_vars == <<key_file, vault, archives>>

vars ==
    <<sched_vars, returned, switch_vars, guard_vars, crypto_vars, rate_limits,
      runs, ops>>

(***************************************************************************)
(* Optional[T]: None is <<>>, a value v is <<v>>.                          *)
(***************************************************************************)
None == <<>>

Some(v) == <<v>>

\* scheduled_time and new_time as callers give them: due now, or one tick ahead
TimeInputs == {now, now + 1}

Returns(op, value) == [op |-> op, raised |-> FALSE, value |-> value]

Raises(op, error) == [op |-> op, raised |-> TRUE, value |-> error]

Budget ==
    /\ ops < MaxOps
    /\ ops' = ops + 1

(***************************************************************************)
(* PublishStatus                                                           *)
(***************************************************************************)
SCHEDULED == "scheduled"

PUBLISHED == "published"

FAILED == "failed"

CANCELLED == "cancelled"

PublishStatus == {SCHEDULED, PUBLISHED, FAILED, CANCELLED}

(***************************************************************************)
(* PlatformSimulator                                                       *)
(***************************************************************************)
platform_formatters == {"twitter", "instagram", "linkedin", "spotify"}

\* the platforms callers ask for: a supported one and one that is not
PlatformInputs == {"twitter", "myspace"}

ContentIds == {"c1"}

Contents == {"text"}

SimulatedError == "Platform API error (simulated)"

UnsupportedError(platform) == <<"Unsupported platform", platform>>

\* simulate_publish suspends (in _mock_api_call) only when a formatter exists
Suspends(post) == post.platform \in platform_formatters

\* the Success result: platform_post_id = f"{post.platform}_{uuid}"
SuccessResult(post) ==
    [status |-> "success", platform_post_id |-> <<post.platform, post.post_id>>]

FailureResult(error) == [status |-> "failed", error |-> error]

(***************************************************************************)
(* Metadata dictionaries live on a heap: a post holds a reference, and two *)
(* posts scheduled with the same non-empty dict share one object.          *)
(***************************************************************************)
EmptyDict == [custom |-> FALSE, result |-> None]

CustomDict == [custom |-> TRUE, result |-> None]

\* dict.update(result): the result's keys overwrite what was there
DictUpdate(d, result) == [d EXCEPT !.result = Some(result)]

\* metadata as callers give it: None (or an empty dict), or the caller's one
\* non-empty dict object, the same object at every call that passes it
MetadataInputs == {"none", "caller"}

\* where the caller's dict object lives on the heap, once it has been passed
CallerDict(heap) == {j \in 1..Len(heap) : heap[j].custom}

\* line 188: metadata or {}
MetadataRef(heap, metadata) ==
    IF metadata = "caller" /\ CallerDict(heap) # {}
    THEN CHOOSE j \in CallerDict(heap) : TRUE
    ELSE Len(heap) + 1

MetadataHeap(heap, metadata) ==
    IF metadata = "caller"
    THEN IF CallerDict(heap) # {} THEN heap ELSE Append(heap, CustomDict)
    ELSE Append(heap, EmptyDict)

(***************************************************************************)
(* _save_scheduled_posts / _load_scheduled_posts                           *)
(***************************************************************************)
IsoFormat(t) == <<"iso", t>>

FromIsoFormat(s) == s[2]

IsoOpt(o) == IF o = None THEN None ELSE Some(IsoFormat(o[1]))

FromIsoOpt(o) == IF o = None THEN None ELSE Some(FromIsoFormat(o[1]))

SerializePost(post, heap) ==
    [post_id |-> post.post_id,
     content_id |-> post.content_id,
     platform |-> post.platform,
     content |-> post.content,
     scheduled_time |-> IsoFormat(post.scheduled_time),
     status |-> post.status,
     metadata |-> heap[post.metadata],
     created_at |-> IsoFormat(post.created_at),
     published_at |-> IsoOpt(post.published_at),
     error_message |-> post.error_message]

\* the file written without the post that was added last
SaveWithoutLast(posts, heap) ==
    [exists |-> TRUE, torn |-> FALSE,
     data |-> [i \in 1..(Len(posts) - 1) |-> SerializePost(posts[i], heap)]]

\* the file: torn is true of a file whose text json.load rejects
SaveScheduledPosts(posts, heap) ==
    [exists |-> TRUE, torn |-> FALSE,
     data |-> [i \in 1..Len(posts) |-> SerializePost(posts[i], heap)]]

\* the keys _load_scheduled_posts reads from a record (lines 336-345)
PostKeys == {"post_id", "content_id", "platform", "content", "scheduled_time",
             "status", "metadata", "created_at", "published_at",
             "error_message"}

\* datetime.fromisoformat accepts the string
IsIsoFormat(s) == s[1] = "iso"

\* the ScheduledPost(...) call of lines 335-346 raises nothing on the record:
\* every key is there, the times parse and the status is one of the enum's
Loadable(post_data) ==
    /\ PostKeys \subseteq DOMAIN post_data
    /\ IsIsoFormat(post_data.scheduled_time)
    /\ post_data.status \in PublishStatus
    /\ IsIsoFormat(post_data.created_at)
    /\ post_data.published_at # None => IsIsoFormat(post_data.published_at[1])

\* lines 335-346: the post made from a record, its metadata a new dict
DeserializePost(post_data, ref) ==
    [post_id |-> post_data.post_id,
     content_id |-> post_data.content_id,
     platform |-> post_data.platform,
     content |-> post_data.content,
     scheduled_time |-> FromIsoFormat(post_data.scheduled_time),
     status |-> post_data.status,
     metadata |-> ref,
     created_at |-> FromIsoFormat(post_data.created_at),
     published_at |-> FromIsoOpt(post_data.published_at),
     error_message |-> post_data.error_message]

\* the loop of lines 334-347 from record i on: the first record that raises
\* ends it (the except clause is outside the loop), the posts made before it
\* stay in the store
RECURSIVE LoadFrom(_, _, _)
LoadFrom(data, i, store) ==
    IF i > Len(data) \/ ~Loadable(data[i])
    THEN store
    ELSE LoadFrom(data, i + 1,
                  [posts |-> Append(store.posts,
                                    DeserializePost(data[i], Len(store.heap) + 1)),
                   heap |-> Append(store.heap, data[i].metadata)])

EmptyStore == [posts |-> <<>>, heap |-> <<>>]

\* _load_scheduled_posts on an empty store
LoadScheduledPosts(file) ==
    IF ~file.exists \/ file.torn
    THEN EmptyStore
    ELSE LoadFrom(file.data, 1, EmptyStore)

\* a store by value: every post with the content of its metadata dict
StoreValue(posts, heap) ==
    [i \in 1..Len(posts) |-> [posts[i] EXCEPT !.metadata = heap[posts[i].metadata]]]

(***************************************************************************)
(* The sweep: process_scheduled_posts                                      *)
(***************************************************************************)
\* the due test with a strict comparison of the times
IsDueStrictly(post, current_time) ==
    post.status = SCHEDULED /\ post.scheduled_time < current_time

\* the due test without its status conjunct
IsDueWhateverStatus(post, current_time) == post.scheduled_time <= current_time

IsDue(post, current_time) ==
    post.status = SCHEDULED /\ post.scheduled_time <= current_time

Outcome(post, result) ==
    [post_id |-> post.post_id, platform |-> post.platform,
     status |-> post.status, result |-> result]

\* the update with the time of publication written to created_at as well
ApplyResultStamped(post, result, t) ==
    IF result.status = "success"
    THEN [post EXCEPT !.status = PUBLISHED, !.published_at = Some(t),
                      !.created_at = t]
    ELSE [post EXCEPT !.status = FAILED, !.error_message = Some(result.error)]

\* lines 209-215: the status update from the publish result
ApplyResult(post, result, t) ==
    IF result.status = "success"
    THEN [post EXCEPT !.status = PUBLISHED, !.published_at = Some(t)]
    ELSE [post EXCEPT !.status = FAILED, !.error_message = Some(result.error)]

\* line 212: post.metadata.update(result)
ApplyResultHeap(heap, post, result) ==
    IF result.status = "success"
    THEN [heap EXCEPT ![post.metadata] = DictUpdate(@, result)]
    ELSE heap

LoopState(posts, heap, calls, proc) ==
    [posts |-> posts, heap |-> heap, calls |-> calls, proc |-> proc,
     pc |-> "run", pos |-> 0]

(***************************************************************************)
(* The for loop of the sweep from dict position i on, run until the        *)
(* coroutine suspends in simulate_publish, the dict iterator raises        *)
(* RuntimeError because the dict changed size, or the loop ends.           *)
(* used is the size of the dict when the iterator was made.                *)
(***************************************************************************)
RECURSIVE RunLoop(_, _, _, _)
RunLoop(st, i, used, current_time) ==
    IF used # Len(st.posts)
    THEN [st EXCEPT !.pc = "raised"]
    ELSE IF i > Len(st.posts)
    THEN [st EXCEPT !.pc = "done"]
    ELSE IF ~IsDue(st.posts[i], current_time)
    THEN RunLoop(st, i + 1, used, current_time)
    ELSE IF Suspends(st.posts[i])
    THEN [st EXCEPT !.pc = "await", !.pos = i,
                    !.calls = [@ EXCEPT ![i] = @ + 1]]
    ELSE LET result == FailureResult(UnsupportedError(st.posts[i].platform))
             post == ApplyResult(st.posts[i], result, current_time)
         IN  RunLoop([st EXCEPT !.posts = [@ EXCEPT ![i] = post],
                                !.calls = [@ EXCEPT ![i] = @ + 1],
                                !.proc = Append(@, Outcome(post, result))],
                     i + 1, used, current_time)

RunningFrame == [pc |-> "run"]

\* what the coroutine leaves behind when RunLoop stops; frames are the
\* coroutines, the k-th being the one that ran
SweepAfter(k, others, st, used, current_time) ==
    /\ scheduled_posts' = st.posts
    /\ metadata_heap' = st.heap
    /\ publish_calls' = st.calls
    /\ posts_file' = IF st.pc = "done"
                     THEN SaveScheduledPosts(st.posts, st.heap)
                     ELSE posts_file
    /\ sweeps' = IF st.pc = "await"
                 THEN [others EXCEPT ![k] =
                         [pc |-> "await", current_time |-> current_time,
                          pos |-> st.pos, used |-> used,
                          processed_posts |-> st.proc]]
                 ELSE SelectSeq(others, LAMBDA f : f.pc = "await")
    /\ returned' = CASE st.pc = "await" -> returned
                     [] st.pc = "done" -> Returns("process_scheduled_posts", st.proc)
                     [] OTHER -> Raises("process_scheduled_posts", "RuntimeError")

\* a call of process_scheduled_posts, up to its first suspension
SweepStart ==
    /\ SweepAfter(Len(sweeps) + 1, Append(sweeps, RunningFrame),
                  RunLoop(LoopState(scheduled_posts, metadata_heap,
                                    publish_calls, <<>>),
                          1, Len(scheduled_posts), now),
                  Len(scheduled_posts), now)
    /\ UNCHANGED now

\* the coroutine resumes from the simulated network delay with its result
SweepResume(k, success) ==
    /\ k \in 1..Len(sweeps)
    /\ LET sw == sweeps[k]
           i == sw.pos
           post == scheduled_posts[i]
           result == IF success THEN SuccessResult(post)
                     ELSE FailureResult(SimulatedError)
           done == ApplyResult(post, result, now)
       IN  SweepAfter(k, [sweeps EXCEPT ![k] = RunningFrame],
                      RunLoop(LoopState([scheduled_posts EXCEPT ![i] = done],
                                        ApplyResultHeap(metadata_heap, post, result),
                                        publish_calls,
                                        Append(sw.processed_posts,
                                               Outcome(done, result))),
                              i + 1, sw.used, sw.current_time),
                      sw.used, sw.current_time)
    /\ UNCHANGED now

(***************************************************************************)
(* schedule_post, cancel_scheduled_post, reschedule_post                   *)
(***************************************************************************)
SchedulePost(content_id, platform, content, scheduled_time, metadata) ==
    /\ LET ref == MetadataRef(metadata_heap, metadata)
           heap == MetadataHeap(metadata_heap, metadata)
           post == [post_id |-> Len(scheduled_posts) + 1,
                    content_id |-> content_id,
                    platform |-> platform,
                    content |-> content,
                    scheduled_time |-> scheduled_time,
                    status |-> SCHEDULED,
                    metadata |-> ref,
                    created_at |-> now,
                    published_at |-> None,
                    error_message |-> None]
           posts == Append(scheduled_posts, post)
       IN  /\ scheduled_posts' = posts
           /\ metadata_heap' = heap
           /\ publish_calls' = Append(publish_calls, 0)
           /\ posts_file' = SaveScheduledPosts(posts, heap)
           /\ returned' = Returns("schedule_post", post.post_id)
    /\ UNCHANGED <<now, sweeps>>

\* post_id ranges over the ids of the store and one id that is not in it
PostIdInputs == 1..(Len(scheduled_posts) + 1)

\* the test of the id alone, whatever the status of the post
CancelGuardAnyStatus(post_id) == post_id \in 1..Len(scheduled_posts)

CancelGuard(post_id) ==
    /\ post_id \in 1..Len(scheduled_posts)
    /\ scheduled_posts[post_id].status = SCHEDULED

CancelScheduledPost(post_id) ==
    /\ IF CancelGuard(post_id)
       THEN LET posts == [scheduled_posts EXCEPT ![post_id].status = CANCELLED]
            IN  /\ scheduled_posts' = posts
                /\ posts_file' = SaveScheduledPosts(posts, metadata_heap)
                /\ returned' = Returns("cancel_scheduled_post", TRUE)
       ELSE /\ UNCHANGED <<scheduled_posts, posts_file>>
            /\ returned' = Returns("cancel_scheduled_post", FALSE)
    /\ UNCHANGED <<metadata_heap, now, sweeps, publish_calls>>

\* the test of the id alone, whatever the status of the post
RescheduleGuardAnyStatus(post_id) == post_id \in 1..Len(scheduled_posts)

RescheduleGuard(post_id) ==
    /\ post_id \in 1..Len(scheduled_posts)
    /\ scheduled_posts[post_id].status = SCHEDULED

ReschedulePost(post_id, new_time) ==
    /\ IF RescheduleGuard(post_id)
       THEN LET posts == [scheduled_posts EXCEPT ![post_id].scheduled_time = new_time]
            IN  /\ scheduled_posts' = posts
                /\ posts_file' = SaveScheduledPosts(posts, metadata_heap)
                /\ returned' = Returns("reschedule_post", TRUE)
       ELSE /\ UNCHANGED <<scheduled_posts, posts_file>>
            /\ returned' = Returns("reschedule_post", FALSE)
    /\ UNCHANGED <<metadata_heap, now, sweeps, publish_calls>>

\* the clock advances
Tick ==
    /\ now' = now + 1
    /\ UNCHANGED <<scheduled_posts, metadata_heap, posts_file, sweeps,
                   publish_calls, returned>>

(***************************************************************************)
(* The scheduler: SchedulerPublisher() on an empty scheduler_db            *)
(***************************************************************************)
SchedInit ==
    /\ scheduled_posts = <<>>
    /\ metadata_heap = <<>>
    /\ posts_file = [exists |-> FALSE, torn |-> FALSE, data |-> <<>>]
    /\ now = 0
    /\ sweeps = <<>>
    /\ publish_calls = <<>>

(***************************************************************************)
(* kill_switch.py: KillSwitch, run from the command line on the same       *)
(* working directory                                                       *)
(***************************************************************************)
Reasons == {"incident"}

Sentinel(activated_by, reason) ==
    [valid |-> TRUE, active |-> TRUE, activated_by |-> activated_by,
     reason |-> reason]

\* a sentinel whose record says active: false
InactiveSentinel ==
    [valid |-> TRUE, active |-> FALSE, activated_by |-> "operator",
     reason |-> "incident"]

\* a sentinel that is no JSON document, such as a file cut short while written
CorruptSentinel ==
    [valid |-> FALSE, active |-> FALSE, activated_by |-> "", reason |-> ""]

\* _create_emergency_backup: copytree refuses a directory that exists
CreateEmergencyBackup(backup, t, scheduler_db) ==
    IF \E b \in backup : b.timestamp = t
    THEN backup
    ELSE backup \cup {[timestamp |-> t, scheduler_db |-> scheduler_db]}

\* a log file: torn is true of a file whose text json.load rejects, such as
\* one cut short while it was written
EmptyLog == [torn |-> FALSE, events |-> <<>>]

TornLog == [torn |-> TRUE, events |-> <<>>]

\* _log_kill_switch_event: the handler of lines 201-202 prints the error of
\* json.load and the event is dropped
LogKillSwitchEvent(log, event) ==
    IF log.torn
    THEN log
    ELSE [log EXCEPT !.events =
              Append(@, [event_id |-> Len(@) + 1, event |-> event])]

KillSwitchActivate(reason) ==
    /\ emergency_backup' = CreateEmergencyBackup(emergency_backup, now, posts_file)
    /\ kill_switch_events' = LogKillSwitchEvent(kill_switch_events, "kill_switch_activated")
    /\ kill_switch_file' = Some(Sentinel("manual_kill_switch", reason))
    /\ returned' = Returns("KillSwitch.activate", TRUE)

KillSwitchDeactivate ==
    IF kill_switch_file = None
    THEN /\ returned' = Returns("KillSwitch.deactivate", TRUE)
         /\ UNCHANGED switch_vars
    ELSE IF ~kill_switch_file[1].valid
    THEN \* json.load raises, the handler prints the error and returns False
         /\ returned' = Returns("KillSwitch.deactivate", FALSE)
         /\ UNCHANGED switch_vars
    ELSE /\ kill_switch_events' =
                LogKillSwitchEvent(kill_switch_events, "kill_switch_deactivated")
         /\ kill_switch_file' = None
         /\ returned' = Returns("KillSwitch.deactivate", TRUE)
         /\ UNCHANGED emergency_backup

SwitchInit ==
    /\ kill_switch_file = None
    /\ kill_switch_events = EmptyLog
    /\ emergency_backup = {}

(***************************************************************************)
(* agents/security_guard.py: SecurityGuard                                 *)
(***************************************************************************)
\* Fernet.generate_key(): a key no earlier call returned; n counts the calls
GenerateKey(n) == <<"fernet_key", n>>

\* a key made at every construction, the key file ignored
AlwaysGenerateKey(file, n) == GenerateKey(n)

GetOrCreateEncryptionKey(file, n) ==
    IF file # None THEN file[1] ELSE GenerateKey(n)

CheckKillSwitch(file) ==
    IF file = None THEN FALSE
    ELSE IF file[1].valid THEN file[1].active
    ELSE FALSE

\* SecurityGuard(): the n-th instance made, on the disk as it is
NewGuard(sentinel, keys, n) ==
    [kill_switch_active |-> CheckKillSwitch(sentinel),
     encryption_key |-> GetOrCreateEncryptionKey(keys, n)]

GuardReturns(op, g, args, value) ==
    [op |-> op, raised |-> FALSE, value |-> value, guard |-> g, args |-> args]

GuardRaises(op, g, args, error) ==
    [op |-> op, raised |-> TRUE, value |-> error, guard |-> g, args |-> args]

KillSwitchBlocked == "Kill switch is active - content analysis blocked"

(***************************************************************************)
(* Content analysis.  A text is a sequence of words; a keyword is a        *)
(* sequence of words too ("holy war").                                     *)
(***************************************************************************)
LowerWord(w) ==
    CASE w = "DAMN" -> "damn"
      [] w = "Jihad" -> "jihad"
      [] OTHER -> w

Lower(text) == [i \in 1..Len(text) |-> LowerWord(text[i])]

profanity_patterns == <<{"damn", "hell", "crap"}, {"stupid", "idiot", "moron"}>>

religious_bias_keywords ==
    << <<"infidel">>, <<"heretic">>, <<"blasphemy">>, <<"false", "prophet">>,
       <<"religious", "war">>, <<"holy", "war">>, <<"crusade">>, <<"jihad">> >>

political_bias_keywords ==
    << <<"radical", "left">>, <<"radical", "right">>, <<"fascist">>,
       <<"communist">>, <<"liberal", "agenda">>, <<"conservative", "agenda">>,
       <<"deep", "state">> >>

controversy_keywords ==
    << <<"controversial">>, <<"disputed">>, <<"debated">>, <<"contentious">>,
       <<"polarizing">>, <<"divisive">>, <<"inflammatory">> >>

hate_speech_patterns ==
    <<{"hate", "despise", "loathe"}, {"kill", "destroy", "eliminate"}>>

misinformation_indicators ==
    << <<"proven", "fact">>, <<"scientists", "agree">>, <<"studies", "show">>,
       <<"everyone", "knows">>, <<"obvious", "truth">>, <<"undeniable">> >>

\* keyword in content_lower
Occurs(keyword, text) ==
    \E i \in 1..(Len(text) - Len(keyword) + 1) :
        SubSeq(text, i, i + Len(keyword) - 1) = keyword

KeywordMatches(keywords, text) ==
    SelectSeq(keywords, LAMBDA keyword : Occurs(keyword, text))

\* re.findall(r'\b(w1|w2|w3)\b', content_lower)
WordMatches(words, text) == SelectSeq(text, LAMBDA w : w \in words)

\* re.findall(r'\b(v1|v2|v3)\s+(all|every)\s+\w+', content_lower)
PhraseMatches(verbs, text) ==
    {i \in 1..(Len(text) - 2) : text[i] \in verbs /\ text[i + 1] \in {"all", "every"}}

Flag(flag_type, severity, count) ==
    [flag_type |-> flag_type, severity |-> severity, count |-> count]

FlagIf(cond, flag) == IF cond THEN <<flag>> ELSE <<>>

CheckProfanity(text) ==
    LET one(words) == FlagIf(WordMatches(words, text) # <<>>,
                             Flag("profanity", "medium", Len(WordMatches(words, text))))
    IN  one(profanity_patterns[1]) \o one(profanity_patterns[2])

\* the threshold met by two keywords already
BiasSeverityFromTwo(matches) == IF Len(matches) >= 2 THEN "high" ELSE "medium"

\* lines 184 and 206
BiasSeverity(matches) == IF Len(matches) > 2 THEN "high" ELSE "medium"

CheckReligiousBias(text) ==
    LET matches == KeywordMatches(religious_bias_keywords, text)
    IN  FlagIf(matches # <<>>,
               Flag("religious_bias", BiasSeverity(matches), Len(matches)))

CheckPoliticalBias(text) ==
    LET matches == KeywordMatches(political_bias_keywords, text)
    IN  FlagIf(matches # <<>>,
               Flag("political_bias", BiasSeverity(matches), Len(matches)))

CheckControversy(text) ==
    LET matches == KeywordMatches(controversy_keywords, text)
    IN  FlagIf(matches # <<>>, Flag("controversy", "low", Len(matches)))

CheckHateSpeech(text) ==
    LET one(verbs) == FlagIf(PhraseMatches(verbs, text) # {},
                             Flag("hate_speech", "critical",
                                  Cardinality(PhraseMatches(verbs, text))))
    IN  one(hate_speech_patterns[1]) \o one(hate_speech_patterns[2])

CheckMisinformation(text) ==
    LET matches == KeywordMatches(misinformation_indicators, text)
    IN  FlagIf(matches # <<>>, Flag("misinformation", "medium", Len(matches)))

\* lines 123-148: the battery, on content.lower()
SecurityFlags(content) ==
    LET content_lower == Lower(content)
    IN  CheckProfanity(content_lower) \o CheckReligiousBias(content_lower)
          \o CheckPoliticalBias(content_lower) \o CheckControversy(content_lower)
          \o CheckHateSpeech(content_lower) \o CheckMisinformation(content_lower)

\* _log_security_analysis
LogSecurityAnalysis(log, content_id, flags) ==
    Append(log, [content_id |-> content_id, flags_count |-> Len(flags),
                 flags |-> flags])

\* _log_security_event on a log that json.load accepts
LogSecurityEvent(log, event_type) ==
    [log EXCEPT !.events = Append(@, [event_type |-> event_type])]

\* line 453: json.load raises on a torn log and nothing catches it
JSONDecodeError == "JSONDecodeError"

\* what a kill-switch call of SecurityGuard leaves in the log and returns
LogEventAndReturn(op, g, args, event_type) ==
    IF security_events.torn
    THEN /\ UNCHANGED security_events
         /\ returned' = GuardRaises(op, g, args, JSONDecodeError)
    ELSE /\ security_events' = LogSecurityEvent(security_events, event_type)
         /\ returned' = GuardReturns(op, g, args, TRUE)

\* line 120: the gate of analyze_content_security
Blocked(guard) == guard.kill_switch_active

\* analyze_content_security on instance guard
AnalyzeWith(g, guard, content, content_id) ==
    IF Blocked(guard)
    THEN /\ returned' = GuardRaises("analyze_content_security", g, content,
                                    KillSwitchBlocked)
         /\ UNCHANGED analysis_log
    ELSE /\ analysis_log' = LogSecurityAnalysis(analysis_log, content_id,
                                                SecurityFlags(content))
         /\ returned' = GuardReturns("analyze_content_security", g, content,
                                     SecurityFlags(content))

\* what activate_kill_switch and deactivate_kill_switch leave in the instance
Activated(guard) == [guard EXCEPT !.kill_switch_active = TRUE]

\* deactivation that removes the sentinel and leaves the flag as it is
DeactivatedFlagKept(guard) == guard

Deactivated(guard) == [guard EXCEPT !.kill_switch_active = FALSE]

AnalyzeContentSecurity(g, content, content_id) ==
    /\ g \in 1..Len(guards)
    /\ AnalyzeWith(g, guards[g], content, content_id)
    /\ UNCHANGED <<guards, last_switch, security_events, switch_vars>>

ActivateKillSwitch(g, reason) ==
    /\ g \in 1..Len(guards)
    /\ kill_switch_file' = Some(Sentinel("security_guard", reason))
    /\ guards' = [guards EXCEPT ![g] = Activated(@)]
    /\ last_switch' = [last_switch EXCEPT ![g] = "activated"]
    /\ LogEventAndReturn("activate_kill_switch", g, reason, "KILL_SWITCH_ACTIVATED")
    /\ UNCHANGED <<analysis_log, kill_switch_events, emergency_backup>>

DeactivateKillSwitch(g) ==
    /\ g \in 1..Len(guards)
    /\ kill_switch_file' = None
    /\ guards' = [guards EXCEPT ![g] = Deactivated(@)]
    /\ last_switch' = [last_switch EXCEPT ![g] = "deactivated"]
    /\ LogEventAndReturn("deactivate_kill_switch", g, <<>>,
                         "KILL_SWITCH_DEACTIVATED")
    /\ UNCHANGED <<analysis_log, kill_switch_events, emergency_backup>>

\* a caller makes a SecurityGuard and keeps it
Construct ==
    /\ guards' = Append(guards, NewGuard(kill_switch_file, key_file, Len(guards) + 1))
    /\ last_switch' = Append(last_switch, "none")
    /\ key_file' = Some(GetOrCreateEncryptionKey(key_file, Len(guards) + 1))
    /\ returned' = GuardReturns("SecurityGuard", Len(guards) + 1, <<>>, <<>>)

(***************************************************************************)
(* api/routers/security.py: each request makes its own SecurityGuard,      *)
(* calls it and drops it.  Instance 0 is the request's.                    *)
(***************************************************************************)
RequestGuard == NewGuard(kill_switch_file, key_file, 0)

ApiAnalyze(content, content_id) ==
    /\ AnalyzeWith(0, RequestGuard, content, content_id)
    /\ UNCHANGED <<guards, last_switch, security_events, switch_vars>>

ApiActivateKillSwitch(reason) ==
    /\ kill_switch_file' = Some(Sentinel("security_guard", reason))
    /\ LogEventAndReturn("activate_kill_switch", 0, reason, "KILL_SWITCH_ACTIVATED")
    /\ UNCHANGED <<guards, last_switch, analysis_log, kill_switch_events,
                   emergency_backup>>

ApiDeactivateKillSwitch ==
    /\ kill_switch_file' = None
    /\ LogEventAndReturn("deactivate_kill_switch", 0, <<>>,
                         "KILL_SWITCH_DEACTIVATED")
    /\ UNCHANGED <<guards, last_switch, analysis_log, kill_switch_events,
                   emergency_backup>>

\* the texts given to analyze_content_security
TextInputs ==
    {<<"good", "morning">>,
     <<"DAMN", "crusade", "Jihad", "heretic", "hate", "all", "people">>}

\* the module-level security_guard, made at import on the disk as it is
GuardInit ==
    /\ guards = <<NewGuard(kill_switch_file, None, 1)>>
    /\ last_switch = <<"none">>
    /\ security_events = EmptyLog
    /\ analysis_log = <<>>
    /\ key_file = Some(GetOrCreateEncryptionKey(None, 1))
    /\ vault = {}
    /\ archives = {}


(***************************************************************************)
(* encrypt_content / decrypt_content.  Byte strings are kept symbolic:     *)
(* each encoding wraps its argument and its inverse unwraps it; SHA-256 is *)
(* taken to be collision free and Fernet to accept exactly the tokens made *)
(* with the same key and not altered since.                                *)
(***************************************************************************)
JsonDumps(v) == <<"json", v>>

JsonLoads(s) == s[2]

Utf8Encode(s) == <<"utf8", s>>

Utf8Decode(b) == b[2]

B64Encode(bytes) == <<"base64", bytes>>

\* a string base64.b64decode rejects (binascii.Error)
Malformed(bytes) == <<"malformed", bytes>>

IsBase64(s) == s[1] = "base64"

B64Decode(s) == s[2]

Sha256Hex(bytes) == <<"sha256", bytes>>

\* Fernet(key).encrypt(data); iv stands for the token's timestamp and IV
FernetEncrypt(key, data, iv) ==
    [key |-> key, iv |-> iv, data |-> data, intact |-> TRUE]

\* Fernet(key).decrypt(token): InvalidToken unless the HMAC verifies
FernetDecrypt(key, token) ==
    IF token.key = key /\ token.intact
    THEN [ok |-> TRUE, data |-> token.data]
    ELSE [ok |-> FALSE, data |-> token.data]

\* token with a byte changed
Altered(token) == [token EXCEPT !.intact = FALSE]

\* lines 283-292: the record that is encrypted
ContentData(content, language, t, uuid) ==
    [content |-> content, language |-> language,
     encrypted_at |-> IsoFormat(t), content_id |-> uuid]

\* line 295: the checksum, over the ciphertext
Checksum(encrypted_bytes, json_data) == Sha256Hex(encrypted_bytes)

EncryptWith(guard, content, language, t, uuid) ==
    LET json_data == JsonDumps(ContentData(content, language, t, uuid))
        encrypted_bytes ==
            FernetEncrypt(guard.encryption_key, Utf8Encode(json_data), uuid)
    IN  [encrypted_data |-> B64Encode(encrypted_bytes),
         checksum |-> Checksum(encrypted_bytes, Utf8Encode(json_data))]

IntegrityError == "Checksum verification failed - data may be corrupted"

\* an exception raised with a message
Exception(message) == [error |-> message]

\* decrypt_content with the two steps in the other order: decrypt, then verify
DecryptThenVerify(guard, encrypted_data, checksum) ==
    IF ~IsBase64(encrypted_data)
    THEN [raised |-> TRUE, value |-> Exception("binascii.Error"), cipher_invoked |-> FALSE]
    ELSE LET decrypted == FernetDecrypt(guard.encryption_key,
                                        B64Decode(encrypted_data))
         IN  IF ~decrypted.ok
             THEN [raised |-> TRUE, value |-> Exception("InvalidToken"),
                   cipher_invoked |-> TRUE]
             ELSE IF Sha256Hex(B64Decode(encrypted_data)) # checksum
             THEN [raised |-> TRUE, value |-> Exception(IntegrityError),
                   cipher_invoked |-> TRUE]
             ELSE [raised |-> FALSE,
                   value |-> JsonLoads(Utf8Decode(decrypted.data)),
                   cipher_invoked |-> TRUE]

\* decrypt_content: what it returns or raises, and whether cipher_suite.decrypt ran
DecryptWith(guard, encrypted_data, checksum) ==
    IF ~IsBase64(encrypted_data)
    THEN [raised |-> TRUE, value |-> Exception("binascii.Error"), cipher_invoked |-> FALSE]
    ELSE IF Sha256Hex(B64Decode(encrypted_data)) # checksum
    THEN [raised |-> TRUE, value |-> Exception(IntegrityError), cipher_invoked |-> FALSE]
    ELSE LET decrypted == FernetDecrypt(guard.encryption_key,
                                        B64Decode(encrypted_data))
         IN  IF decrypted.ok
             THEN [raised |-> FALSE,
                   value |-> JsonLoads(Utf8Decode(decrypted.data)),
                   cipher_invoked |-> TRUE]
             ELSE [raised |-> TRUE, value |-> Exception("InvalidToken"),
                   cipher_invoked |-> TRUE]

EncryptContent(g, content, language) ==
    /\ g \in 1..Len(guards)
    /\ LET pair == EncryptWith(guards[g], content, language, now,
                               Cardinality(vault) + 1)
       IN  /\ vault' = vault \cup {[encrypted_data |-> pair.encrypted_data,
                                    checksum |-> pair.checksum,
                                    content |-> content, language |-> language,
                                    guard |-> g]}
           /\ returned' = GuardReturns("encrypt_content", g,
                                       <<content, language>>, pair)

\* what a caller hands to decrypt_content: a stored pair as it is, or with
\* its checksum or its ciphertext damaged
Variants == {"stored", "checksum_corrupted", "ciphertext_modified",
             "modified_and_rehashed", "not_base64"}

Presented(entry, variant) ==
    LET token == B64Decode(entry.encrypted_data)
    IN  CASE variant = "stored" ->
               [encrypted_data |-> entry.encrypted_data, checksum |-> entry.checksum]
          [] variant = "checksum_corrupted" ->
               [encrypted_data |-> entry.encrypted_data,
                checksum |-> Sha256Hex([token EXCEPT !.iv = 0])]
          [] variant = "ciphertext_modified" ->
               [encrypted_data |-> B64Encode(Altered(token)),
                checksum |-> entry.checksum]
          [] variant = "modified_and_rehashed" ->
               [encrypted_data |-> B64Encode(Altered(token)),
                checksum |-> Sha256Hex(Altered(token))]
          [] OTHER ->
               [encrypted_data |-> Malformed(token), checksum |-> entry.checksum]

DecryptContent(g, entry, variant) ==
    /\ g \in 1..Len(guards)
    /\ LET given == Presented(entry, variant)
           result == DecryptWith(guards[g], given.encrypted_data, given.checksum)
       IN  returned' = [op |-> "decrypt_content", guard |-> g,
                        args |-> [entry |-> entry, variant |-> variant,
                                  encrypted_data |-> given.encrypted_data,
                                  checksum |-> given.checksum],
                        raised |-> result.raised, value |-> result.value,
                        cipher_invoked |-> result.cipher_invoked]
    /\ UNCHANGED vault

EncryptInputs == {"hello", "namaste"}

Languages == {"en", "hi"}

(***************************************************************************)
(* core/ai_manager.py: AIModelManager, the module's ai_manager.  The clock *)
(* counts minutes.                                                         *)
(***************************************************************************)
Providers == {"groq", "gemini"}

\* core/config.py
primary_ai_provider == "groq"

fallback_ai_provider == "gemini"

GroqRequestsPerMinute == 30

GeminiRequestsPerMinute == 15

\* self.limits[provider]["requests_per_minute"]
RequestsPerMinute(provider) ==
    IF provider = "groq" THEN GroqRequestsPerMinute ELSE GeminiRequestsPerMinute

\* the counters of a manager made at time t
NewRateLimits(t) == [provider \in Providers |-> [requests |-> 0, reset_time |-> t]]

\* _check_rate_limit: the counter is reset when more than a minute has passed
CheckRateLimit(limits, provider, t) ==
    LET limit_info == limits[provider]
        checked == IF t - limit_info.reset_time > 1
                   THEN [requests |-> 0, reset_time |-> t]
                   ELSE limit_info
    IN  [rate_limits |-> [limits EXCEPT ![provider] = checked],
         ok |-> checked.requests < RequestsPerMinute(provider)]

\* _increment_usage
IncrementUsage(limits, provider) == [limits EXCEPT ![provider].requests = @ + 1]

\* _get_optimal_provider: the fallback is checked only when the primary is at
\* its limit; with both at their limit the primary is returned after
\* time.sleep(2), which is less than a minute
GetOptimalProvider(limits, t) ==
    LET first == CheckRateLimit(limits, primary_ai_provider, t)
        second == CheckRateLimit(first.rate_limits, fallback_ai_provider, t)
    IN  IF first.ok
        THEN [rate_limits |-> first.rate_limits, provider |-> primary_ai_provider]
        ELSE IF second.ok
        THEN [rate_limits |-> second.rate_limits, provider |-> fallback_ai_provider]
        ELSE [rate_limits |-> second.rate_limits, provider |-> primary_ai_provider]

\* _generate_with_groq / _generate_with_gemini: the usage is counted, then the
\* request is sent; responses[provider] tells whether the provider answers
\* (for groq: its primary model or, asked next, its fallback model)
GenerateWith(limits, provider, responses) ==
    [rate_limits |-> IncrementUsage(limits, provider), ok |-> responses[provider]]

\* line 114
OtherProvider(provider) == IF provider = "groq" THEN "gemini" ELSE "groq"

BothFailed == "Both providers failed"

GenerateContent(responses) ==
    LET chosen == GetOptimalProvider(rate_limits, now)
        first == GenerateWith(chosen.rate_limits, chosen.provider, responses)
        fallback_provider == OtherProvider(chosen.provider)
        second == GenerateWith(first.rate_limits, fallback_provider, responses)
    IN  IF first.ok
        THEN /\ rate_limits' = first.rate_limits
             /\ returned' = Returns("generate_content", chosen.provider)
        ELSE /\ rate_limits' = second.rate_limits
             /\ returned' = IF second.ok
                            THEN Returns("generate_content", fallback_provider)
                            ELSE Raises("generate_content", BothFailed)

AiInit == rate_limits = NewRateLimits(0)

(***************************************************************************)
(* The scheduler with the kill switch of kill_switch.py beside it          *)
(***************************************************************************)
NoRuns == [phase |-> "none", count |-> 0, current_time |-> 0,
           posts |-> <<>>, heap |-> <<>>,
           start |-> <<>>, alone |-> TRUE, moved |-> 0]

Init ==
    /\ SchedInit
    /\ returned = Returns("import", <<>>)
    /\ SwitchInit
    /\ GuardInit
    /\ AiInit
    /\ runs = NoRuns
    /\ ops = 0

\* the scheduler's operations leave the guard's state alone
SchedulerOnly == UNCHANGED <<switch_vars, guard_vars, crypto_vars, rate_limits>>

Schedule ==
    /\ Budget
    /\ \E content_id \in ContentIds, platform \in PlatformInputs,
          content \in Contents, scheduled_time \in TimeInputs,
          metadata \in MetadataInputs :
           SchedulePost(content_id, platform, content, scheduled_time, metadata)
    /\ SchedulerOnly
    /\ UNCHANGED runs

Cancel ==
    /\ Budget
    /\ \E post_id \in PostIdInputs : CancelScheduledPost(post_id)
    /\ SchedulerOnly
    /\ UNCHANGED runs

Reschedule ==
    /\ Budget
    /\ \E post_id \in PostIdInputs, new_time \in TimeInputs :
           ReschedulePost(post_id, new_time)
    /\ SchedulerOnly
    /\ UNCHANGED runs

Start ==
    /\ Budget
    /\ SweepStart
    /\ SchedulerOnly
    /\ UNCHANGED runs

Resume ==
    /\ \E k \in 1..Len(sweeps), success \in BOOLEAN : SweepResume(k, success)
    /\ SchedulerOnly
    /\ UNCHANGED <<runs, ops>>

Clock ==
    /\ Budget
    /\ Tick
    /\ SchedulerOnly
    /\ UNCHANGED runs

Activate ==
    /\ Budget
    /\ \E reason \in Reasons : KillSwitchActivate(reason)
    /\ UNCHANGED <<sched_vars, guard_vars, crypto_vars, rate_limits, runs>>

Deactivate ==
    /\ Budget
    /\ KillSwitchDeactivate
    /\ UNCHANGED <<sched_vars, guard_vars, crypto_vars, rate_limits, runs>>

Next ==
    \/ Schedule \/ Cancel \/ Reschedule \/ Start \/ Resume \/ Clock
    \/ Activate \/ Deactivate

Spec == Init /\ [][Next]_vars

(***************************************************************************)
(* The scheduler alone, with the history of the sweeps that ran alone: a   *)
(* sweep runs alone when no other call is made and no other sweep is in    *)
(* flight between its start and its return.  runs.count is 1 after such a  *)
(* sweep, and 2 after a second one started right after it at the same      *)
(* time; runs.posts and runs.heap are the store as the first one left it.  *)
(* The history follows one sweep at a time, a sweep started with no other  *)
(* in flight: runs.start is the store as that sweep found it, runs.alone   *)
(* is false once another call was made while it was suspended, and         *)
(* runs.moved is the post that a successful reschedule_post moved just     *)
(* before the sweep started (0 when the call before it was another one).   *)
(***************************************************************************)
Follows == runs.phase = "returned" /\ runs.alone /\ runs.current_time = now

\* the post a reschedule_post made with no sweep in flight has just moved
Moved == IF runs.phase = "none" THEN runs.moved ELSE 0

RunsAfterStart ==
    IF sweeps # <<>> THEN NoRuns
    ELSE IF sweeps' # <<>>
    THEN [phase |-> "running", count |-> IF Follows THEN 1 ELSE 0,
          current_time |-> now,
          posts |-> IF Follows THEN runs.posts ELSE <<>>,
          heap |-> IF Follows THEN runs.heap ELSE <<>>,
          start |-> scheduled_posts, alone |-> TRUE, moved |-> Moved]
    ELSE [phase |-> "returned", count |-> IF Follows THEN 2 ELSE 1,
          current_time |-> now,
          posts |-> IF Follows THEN runs.posts ELSE scheduled_posts',
          heap |-> IF Follows THEN runs.heap ELSE metadata_heap',
          start |-> scheduled_posts, alone |-> TRUE, moved |-> Moved]

RunsAfterResume ==
    IF runs.phase # "running" THEN NoRuns
    ELSE IF sweeps' # <<>> THEN runs
    ELSE IF returned'.raised THEN NoRuns
    ELSE IF ~runs.alone
    THEN [runs EXCEPT !.phase = "returned"]
    ELSE [runs EXCEPT !.phase = "returned", !.count = runs.count + 1,
              !.posts = IF runs.count >= 1 THEN runs.posts ELSE scheduled_posts',
              !.heap = IF runs.count >= 1 THEN runs.heap ELSE metadata_heap']

\* another call is made: it ends the succession, and a sweep that is
\* suspended is no longer alone
RunsAfterCall(moved) ==
    IF runs.phase = "running"
    THEN [runs EXCEPT !.alone = FALSE, !.count = 0,
                      !.posts = <<>>, !.heap = <<>>]
    ELSE [NoRuns EXCEPT !.moved = IF sweeps = <<>> THEN moved ELSE 0]

SeqSchedule ==
    /\ Budget
    /\ \E content_id \in ContentIds, platform \in PlatformInputs,
          content \in Contents, scheduled_time \in TimeInputs,
          metadata \in MetadataInputs :
           SchedulePost(content_id, platform, content, scheduled_time, metadata)
    /\ SchedulerOnly
    /\ runs' = RunsAfterCall(0)

SeqCancel ==
    /\ Budget
    /\ \E post_id \in PostIdInputs : CancelScheduledPost(post_id)
    /\ SchedulerOnly
    /\ runs' = RunsAfterCall(0)

SeqReschedule ==
    /\ Budget
    /\ \E post_id \in PostIdInputs, new_time \in TimeInputs :
           /\ ReschedulePost(post_id, new_time)
           /\ runs' = RunsAfterCall(IF RescheduleGuard(post_id)
                                    THEN post_id ELSE 0)
    /\ SchedulerOnly

SeqStart ==
    /\ Budget
    /\ SweepStart
    /\ SchedulerOnly
    /\ runs' = RunsAfterStart

SeqResume ==
    /\ \E k \in 1..Len(sweeps), success \in BOOLEAN : SweepResume(k, success)
    /\ SchedulerOnly
    /\ runs' = RunsAfterResume
    /\ UNCHANGED ops

SeqClock ==
    /\ Budget
    /\ Tick
    /\ SchedulerOnly
    /\ UNCHANGED runs

NextSeq ==
    SeqSchedule \/ SeqCancel \/ SeqReschedule \/ SeqStart \/ SeqResume \/ SeqClock

SpecSeq == Init /\ [][NextSeq]_vars

(***************************************************************************)
(* The security guard and the kill switch, on a disk that may hold a       *)
(* sentinel when the process starts                                        *)
(***************************************************************************)
SentinelsAtStart ==
    {None, Some(Sentinel("manual_kill_switch", "incident")),
     Some(InactiveSentinel), Some(CorruptSentinel)}

InitGuard ==
    /\ SchedInit
    /\ returned = Returns("import", <<>>)
    /\ kill_switch_file \in SentinelsAtStart
    /\ kill_switch_events = EmptyLog
    /\ emergency_backup = {}
    /\ GuardInit
    /\ AiInit
    /\ runs = NoRuns
    /\ ops = 0

GuardOnly == UNCHANGED <<sched_vars, crypto_vars, rate_limits, runs>>

NewInstance ==
    /\ Budget
    /\ Construct
    /\ UNCHANGED <<sched_vars, switch_vars, security_events, analysis_log,
                   vault, archives, rate_limits, runs>>

Analyze ==
    /\ Budget
    /\ \E g \in 1..Len(guards), content \in TextInputs, content_id \in ContentIds :
           AnalyzeContentSecurity(g, content, content_id)
    /\ GuardOnly

GuardActivate ==
    /\ Budget
    /\ \E g \in 1..Len(guards), reason \in Reasons : ActivateKillSwitch(g, reason)
    /\ GuardOnly

GuardDeactivate ==
    /\ Budget
    /\ \E g \in 1..Len(guards) : DeactivateKillSwitch(g)
    /\ GuardOnly

RequestAnalyze ==
    /\ Budget
    /\ \E content \in TextInputs, content_id \in ContentIds :
           ApiAnalyze(content, content_id)
    /\ GuardOnly

RequestActivate ==
    /\ Budget
    /\ \E reason \in Reasons : ApiActivateKillSwitch(reason)
    /\ GuardOnly

RequestDeactivate ==
    /\ Budget
    /\ ApiDeactivateKillSwitch
    /\ GuardOnly

NextGuard ==
    \/ NewInstance \/ Analyze \/ GuardActivate \/ GuardDeactivate
    \/ RequestAnalyze \/ RequestActivate \/ RequestDeactivate
    \/ Activate \/ Deactivate

SpecGuard == InitGuard /\ [][NextGuard]_vars

(***************************************************************************)
(* Encryption: instances are made, encrypt, and decrypt what is presented  *)
(***************************************************************************)
Encrypt ==
    /\ Budget
    /\ \E g \in 1..Len(guards), content \in EncryptInputs, language \in Languages :
           EncryptContent(g, content, language)
    /\ UNCHANGED <<sched_vars, switch_vars, guard_vars, key_file, archives,
                   rate_limits, runs>>

Decrypt ==
    /\ Budget
    /\ \E g \in 1..Len(guards), entry \in vault, variant \in Variants :
           DecryptContent(g, entry, variant)
    /\ UNCHANGED <<sched_vars, switch_vars, guard_vars, key_file, archives,
                   rate_limits, runs>>

NextCrypto == NewInstance \/ Encrypt \/ Decrypt

SpecCrypto == Init /\ [][NextCrypto]_vars

(***************************************************************************)
(* C1: in every reachable state of the scheduler every post has            *)
(* published_at set exactly when its status is PUBLISHED and error_message *)
(* set exactly when its status is FAILED.                                  *)
(***************************************************************************)
StatusInvariant ==
    \A i \in 1..Len(scheduled_posts) :
        /\ scheduled_posts[i].published_at # None
             <=> scheduled_posts[i].status = PUBLISHED
        /\ scheduled_posts[i].error_message # None
             <=> scheduled_posts[i].status = FAILED

(***************************************************************************)
(* C2: a post whose status is PUBLISHED, FAILED or CANCELLED keeps that    *)
(* status in every step; a status changes only from SCHEDULED.             *)
(***************************************************************************)
TerminalStatusesStay ==
    [][\A i \in 1..Len(scheduled_posts) :
          scheduled_posts[i].status # SCHEDULED
            => scheduled_posts'[i].status = scheduled_posts[i].status]_vars

(***************************************************************************)
(* C3: simulate_publish is invoked at most once for any post, also when    *)
(* two sweeps are in flight at once.                                       *)
(***************************************************************************)
PublishedAtMostOnce ==
    \A i \in 1..Len(publish_calls) : publish_calls[i] <= 1

(***************************************************************************)
(* C4: while the kill switch is active no step of a sweep invokes          *)
(* simulate_publish, and no post leaves SCHEDULED for PUBLISHED or FAILED. *)
(***************************************************************************)
KillSwitchActive == CheckKillSwitch(kill_switch_file)

KillSwitchGatesSweep ==
    [][KillSwitchActive =>
          /\ \A i \in 1..Len(publish_calls) : publish_calls'[i] = publish_calls[i]
          /\ \A i \in 1..Len(scheduled_posts) :
                scheduled_posts[i].status = SCHEDULED
                  => scheduled_posts'[i].status \notin {PUBLISHED, FAILED}]_vars

(***************************************************************************)
(* C5: on one instance, a call of analyze_content_security made after      *)
(* activate_kill_switch and before deactivate_kill_switch raises the       *)
(* blocked error whatever the text, and returns no flags; a call made      *)
(* after deactivate_kill_switch succeeds, in every activate/deactivate     *)
(* cycle.                                                                  *)
(***************************************************************************)
KillSwitchGate ==
    (returned.op = "analyze_content_security" /\ returned.guard >= 1) =>
        /\ last_switch[returned.guard] = "activated" =>
              returned.raised /\ returned.value = KillSwitchBlocked
        /\ last_switch[returned.guard] = "deactivated" => ~returned.raised

\* an instance that was activated and then deactivated analyses a text and
\* logs the analysis
KillSwitchGateWitness ==
    /\ returned.op = "analyze_content_security"
    /\ returned.guard >= 1
    /\ last_switch[returned.guard] = "deactivated"
    /\ ~returned.raised
    /\ Len(security_events.events) >= 2
    /\ Len(analysis_log) = 1

(***************************************************************************)
(* C6: whenever the sentinel says the kill switch is active, analysis is   *)
(* blocked on every SecurityGuard instance of the process, whichever       *)
(* instance or program wrote the sentinel; and once the sentinel is        *)
(* removed no instance is blocked.                                         *)
(***************************************************************************)
KillSwitchSystemWide ==
    \A g \in 1..Len(guards) :
        /\ KillSwitchActive => Blocked(guards[g])
        /\ kill_switch_file = None => ~Blocked(guards[g])

(***************************************************************************)
(* C7: a SecurityGuard just constructed has kill_switch_active true        *)
(* exactly when the sentinel file exists, whatever the file holds.         *)
(***************************************************************************)
FlagFromFilePresence ==
    /\ ops = 0 => (guards[1].kill_switch_active <=> kill_switch_file # None)
    /\ returned.op = "SecurityGuard" =>
          (guards[returned.guard].kill_switch_active <=> kill_switch_file # None)

(***************************************************************************)
(* C8: when the SHA-256 of the decoded ciphertext differs from the         *)
(* checksum given, decrypt_content raises the integrity error, the         *)
(* cipher's decrypt is not invoked and no plaintext is returned.           *)
(***************************************************************************)
ChecksumMismatch(encrypted_data, checksum) ==
    /\ IsBase64(encrypted_data)
    /\ Sha256Hex(B64Decode(encrypted_data)) # checksum

ChecksumBeforeDecrypt ==
    (/\ returned.op = "decrypt_content"
     /\ ChecksumMismatch(returned.args.encrypted_data, returned.args.checksum))
        => /\ returned.raised
           /\ returned.value = Exception(IntegrityError)
           /\ ~returned.cipher_invoked

\* a stored pair was presented with its checksum corrupted and was refused
ChecksumBeforeDecryptWitness ==
    /\ returned.op = "decrypt_content"
    /\ returned.args.variant = "checksum_corrupted"
    /\ ChecksumMismatch(returned.args.encrypted_data, returned.args.checksum)
    /\ returned.raised
    /\ returned.value = Exception(IntegrityError)
    /\ ~returned.cipher_invoked

SequentialSweepIdempotent ==
    (runs.phase = "returned" /\ runs.count >= 2) =>
        /\ returned = Returns("process_scheduled_posts", <<>>)
        /\ scheduled_posts = runs.posts
        /\ metadata_heap = runs.heap

\* the second sweep returned after a first one that published a post
SequentialSweepWitness ==
    /\ runs.phase = "returned"
    /\ runs.count >= 2
    /\ \E i \in 1..Len(scheduled_posts) : scheduled_posts[i].status = PUBLISHED

(***************************************************************************)
(* SchedulerPublisher() on a disk that holds a scheduled_posts.json of any *)
(* content: written by an earlier process, cut short, or with a record     *)
(* that lacks a key or holds a value the loader rejects.                   *)
(***************************************************************************)
\* a record as _save_scheduled_posts writes it, for a post with the status
SavedRecord(status) ==
    SerializePost([post_id |-> 0, content_id |-> "c1", platform |-> "twitter",
                   content |-> "text", scheduled_time |-> 0, status |-> status,
                   metadata |-> 1, created_at |-> 0,
                   published_at |-> IF status = PUBLISHED THEN Some(0) ELSE None,
                   error_message |-> None],
                  <<EmptyDict>>)

\* the record without its "status" key (KeyError in the loader)
WithoutStatus(post_data) ==
    [k \in DOMAIN post_data \ {"status"} |-> post_data[k]]

RecordInputs ==
    {SavedRecord(SCHEDULED),
     SavedRecord(PUBLISHED),
     WithoutStatus(SavedRecord(SCHEDULED)),
     [SavedRecord(SCHEDULED) EXCEPT !.status = "archived"],
     [SavedRecord(SCHEDULED) EXCEPT !.scheduled_time = <<"text", 0>>]}

\* the records of a file, keyed by distinct post ids
DataInputs ==
    UNION {{[i \in 1..n |-> [kinds[i] EXCEPT !.post_id = i]] :
                kinds \in [1..n -> RecordInputs]} : n \in 0..MaxRecords}

FileInputs ==
    {[exists |-> FALSE, torn |-> FALSE, data |-> <<>>]}
        \cup {[exists |-> TRUE, torn |-> torn, data |-> data] :
                  torn \in BOOLEAN, data \in DataInputs}

InitLoad ==
    /\ posts_file \in FileInputs
    /\ scheduled_posts = <<>>
    /\ metadata_heap = <<>>
    /\ now = 0
    /\ sweeps = <<>>
    /\ publish_calls = <<>>
    /\ returned = Returns("import", <<>>)
    /\ SwitchInit
    /\ GuardInit
    /\ AiInit
    /\ runs = NoRuns
    /\ ops = 0

\* SchedulerPublisher.__init__: the store is what the loader makes of the file
ConstructScheduler ==
    /\ ops = 0
    /\ ops' = 1
    /\ LET store == LoadScheduledPosts(posts_file)
       IN  /\ scheduled_posts' = store.posts
           /\ metadata_heap' = store.heap
           /\ publish_calls' = [i \in 1..Len(store.posts) |-> 0]
    /\ returned' = Returns("SchedulerPublisher", <<>>)
    /\ UNCHANGED <<posts_file, now, sweeps, runs>>
    /\ SchedulerOnly

NextLoad == ConstructScheduler

SpecLoad == InitLoad /\ [][NextLoad]_vars

(***************************************************************************)
(* C11: when a sweep returns, no post that was SCHEDULED with              *)
(* scheduled_time <= the sweep's start time when the sweep started is      *)
(* still SCHEDULED, and the outcome list holds exactly one entry for each  *)
(* post the sweep took to PUBLISHED or FAILED and none for any other post. *)
(* SweepComplete states it for every sweep; SweepCompleteAlone for the     *)
(* sweeps during which no other call was made.                             *)
(***************************************************************************)
SweepReturned == runs.phase = "returned"

DueAtStart(i) ==
    /\ i <= Len(runs.start)
    /\ runs.start[i].status = SCHEDULED
    /\ runs.start[i].scheduled_time <= runs.current_time

Transitioned(i) ==
    /\ i <= Len(runs.start)
    /\ runs.start[i].status = SCHEDULED
    /\ scheduled_posts[i].status \in {PUBLISHED, FAILED}

Entries(i) == {j \in 1..Len(returned.value) : returned.value[j].post_id = i}

SweptAndReported ==
    \A i \in 1..Len(scheduled_posts) :
        /\ DueAtStart(i) => scheduled_posts[i].status # SCHEDULED
        /\ Cardinality(Entries(i)) = IF Transitioned(i) THEN 1 ELSE 0

Cancellable(post_id) ==
    /\ post_id \in 1..Len(scheduled_posts)
    /\ scheduled_posts[post_id].status = SCHEDULED

OnlyStatusCancelled(post_id) ==
    /\ Len(scheduled_posts') = Len(scheduled_posts)
    /\ \A i \in 1..Len(scheduled_posts) :
           scheduled_posts'[i] =
               IF i = post_id
               THEN [scheduled_posts[i] EXCEPT !.status = CANCELLED]
               ELSE scheduled_posts[i]
    /\ metadata_heap' = metadata_heap

\* the steps looked at are those a cancel_scheduled_post call has returned from
CancelContract ==
    [][returned'.op = "cancel_scheduled_post" =>
           \A post_id \in PostIdInputs :
               CancelScheduledPost(post_id) =>
                   IF Cancellable(post_id)
                   THEN /\ returned' = Returns("cancel_scheduled_post", TRUE)
                        /\ OnlyStatusCancelled(post_id)
                   ELSE /\ returned' = Returns("cancel_scheduled_post", FALSE)
                        /\ scheduled_posts' = scheduled_posts
                        /\ metadata_heap' = metadata_heap
                        /\ posts_file' = posts_file]_vars

\* a cancel returned true, and a post is CANCELLED in the store and in the file
CancelContractWitness ==
    /\ returned = Returns("cancel_scheduled_post", TRUE)
    /\ \E i \in 1..Len(scheduled_posts) :
           /\ scheduled_posts[i].status = CANCELLED
           /\ posts_file.data[i].status = CANCELLED

(***************************************************************************)
(* C13: a post's scheduled_time changes only in a reschedule_post call     *)
(* made while the post is SCHEDULED; reschedule_post returns true and sets *)
(* scheduled_time to new_time when the post exists and is SCHEDULED, and   *)
(* returns false and changes nothing otherwise; a SCHEDULED post that was  *)
(* rescheduled to a time <= now is processed by the very next sweep (the   *)
(* sweep started next, no other call being made before it returns).        *)
(***************************************************************************)
Reschedulable(post_id) ==
    /\ post_id \in 1..Len(scheduled_posts)
    /\ scheduled_posts[post_id].status = SCHEDULED

TimeMovesOnlyByReschedule ==
    \A i \in 1..Len(scheduled_posts) :
        scheduled_posts'[i].scheduled_time # scheduled_posts[i].scheduled_time =>
            /\ scheduled_posts[i].status = SCHEDULED
            /\ returned' = Returns("reschedule_post", TRUE)
            /\ ReschedulePost(i, scheduled_posts'[i].scheduled_time)

\* the steps looked at are those a reschedule_post call has returned from
RescheduleReturn ==
    returned'.op = "reschedule_post" =>
    \A post_id \in PostIdInputs, new_time \in TimeInputs :
        ReschedulePost(post_id, new_time) =>
            IF Reschedulable(post_id)
            THEN /\ returned' = Returns("reschedule_post", TRUE)
                 /\ scheduled_posts' =
                        [scheduled_posts EXCEPT ![post_id].scheduled_time = new_time]
                 /\ metadata_heap' = metadata_heap
            ELSE /\ returned' = Returns("reschedule_post", FALSE)
                 /\ scheduled_posts' = scheduled_posts
                 /\ metadata_heap' = metadata_heap
                 /\ posts_file' = posts_file

MovedPostSwept ==
    (/\ SweepReturned
     /\ runs.alone
     /\ runs.moved # 0
     /\ runs.start[runs.moved].scheduled_time <= runs.current_time)
        => /\ scheduled_posts[runs.moved].status \in {PUBLISHED, FAILED}
           /\ Entries(runs.moved) # {}

RescheduleContract ==
    /\ [][TimeMovesOnlyByReschedule /\ RescheduleReturn]_vars
    /\ []MovedPostSwept

\* the sweep that followed a reschedule_post to a time that is due has
\* published the post that was moved
RescheduleContractWitness ==
    /\ SweepReturned
    /\ runs.alone
    /\ runs.moved # 0
    /\ runs.start[runs.moved].scheduled_time <= runs.current_time
    /\ scheduled_posts[runs.moved].status = PUBLISHED
    /\ Entries(runs.moved) # {}

(***************************************************************************)
(* C14: schedule_post always succeeds: it adds exactly one post, whose     *)
(* post_id is none of the ids of the store, SCHEDULED, with published_at   *)
(* and error_message null and the content_id, platform, content and        *)
(* scheduled_time given; it changes no existing post, and the file holds   *)
(* the store when the call returns.  metadata is a map of JSON values.     *)
(***************************************************************************)
FilePersists(file, posts, heap) ==
    LET store == LoadScheduledPosts(file)
    IN  /\ file.exists
        /\ StoreValue(store.posts, store.heap) = StoreValue(posts, heap)

OnePostAdded(content_id, platform, content, scheduled_time) ==
    LET n == Len(scheduled_posts) + 1
    IN  /\ Len(scheduled_posts') = n
        /\ \A i \in 1..(n - 1) :
               scheduled_posts'[n].post_id # scheduled_posts[i].post_id
        /\ scheduled_posts'[n].status = SCHEDULED
        /\ scheduled_posts'[n].published_at = None
        /\ scheduled_posts'[n].error_message = None
        /\ scheduled_posts'[n].content_id = content_id
        /\ scheduled_posts'[n].platform = platform
        /\ scheduled_posts'[n].content = content
        /\ scheduled_posts'[n].scheduled_time = scheduled_time
        /\ returned' = Returns("schedule_post", scheduled_posts'[n].post_id)
        /\ StoreValue(SubSeq(scheduled_posts', 1, n - 1), metadata_heap')
               = StoreValue(scheduled_posts, metadata_heap)

SweepNeverRaises ==
    returned.op = "process_scheduled_posts" => ~returned.raised

(***************************************************************************)
(* C16: simulate_publish raises to its caller for a post whose platform is *)
(* not twitter, instagram, linkedin or spotify, and returns a Failure      *)
(* result for a simulated network failure.  The sweep calls it outside any *)
(* try block, so that no sweep that returns reports an outcome for such a  *)
(* post, and every Failure result is the simulated one.                    *)
(***************************************************************************)
UnsupportedPlatformRaises ==
    (returned.op = "process_scheduled_posts" /\ ~returned.raised) =>
        \A j \in 1..Len(returned.value) :
            /\ returned.value[j].platform \in platform_formatters
            /\ returned.value[j].result.status = "failed" =>
                   returned.value[j].result.error = SimulatedError

(***************************************************************************)
(* C17: every post of the store has its platform in {twitter, instagram,   *)
(* linkedin, spotify}; scheduling for another platform creates no post.    *)
(***************************************************************************)
PlatformsSupported ==
    \A i \in 1..Len(scheduled_posts) :
        scheduled_posts[i].platform \in platform_formatters

(***************************************************************************)
(* C18: whenever no scheduler operation is in progress, the file decodes,  *)
(* by the rules of _load_scheduled_posts, to a store equal to the store    *)
(* in memory: the same post ids and, for each post, the same status,       *)
(* times, error_message, content, platform and metadata.                   *)
(***************************************************************************)
FileMatchesStore ==
    sweeps = <<>> =>
        LET store == LoadScheduledPosts(posts_file)
        IN  StoreValue(store.posts, store.heap)
                = StoreValue(scheduled_posts, metadata_heap)

(***************************************************************************)
(* C19: constructing a SchedulerPublisher raises nothing because of the    *)
(* file, and when the file is missing or corrupt (its text unparsable, or  *)
(* one of its records lacking a key or holding an invalid value) the store *)
(* is empty.                                                               *)
(***************************************************************************)
CorruptFile(file) ==
    /\ file.exists
    /\ \/ file.torn
       \/ \E i \in 1..Len(file.data) : ~Loadable(file.data[i])

EmptyStoreOnBadFile ==
    returned.op = "SchedulerPublisher" =>
        /\ ~returned.raised
        /\ (~posts_file.exists \/ CorruptFile(posts_file)) => scheduled_posts = <<>>

(***************************************************************************)
(* C20: a sweep publishes its due posts in ascending scheduled_time order: *)
(* of two posts processed by one sweep, the one with the smaller           *)
(* scheduled_time has simulate_publish invoked first, in whatever order    *)
(* they were scheduled.  The outcome list is in the order of invocation.   *)
(***************************************************************************)
TimeOfOutcome(j) == scheduled_posts[returned.value[j].post_id].scheduled_time

PublishedInTimeOrder ==
    (returned.op = "process_scheduled_posts" /\ ~returned.raised) =>
        \A j, k \in 1..Len(returned.value) :
            j < k => TimeOfOutcome(j) <= TimeOfOutcome(k)

(***************************************************************************)
(* get_scheduled_posts and get_publishing_stats                            *)
(***************************************************************************)
\* the platform argument: None, "" or a platform name
PlatformFilters == {None, Some(""), Some("twitter"), Some("myspace")}

\* the status argument: None or a member of PublishStatus
StatusFilters == {None} \cup {Some(status) : status \in PublishStatus}

\* bool(platform) of line 236: None and the empty string are false
PlatformGiven(platform) == platform # None /\ platform[1] # ""

\* bool(status) of line 238: every member of the enum is true
StatusGiven(status) == status # None

\* lines 236-239: the post is not skipped
Selected(post, platform, status) ==
    /\ PlatformGiven(platform) => post.platform = platform[1]
    /\ StatusGiven(status) => post.status = status[1]

\* lines 241-252: the dict made from a post; metadata is the post's own dict
PostDict(post) ==
    [post_id |-> post.post_id,
     content_id |-> post.content_id,
     platform |-> post.platform,
     content |-> post.content,
     scheduled_time |-> IsoFormat(post.scheduled_time),
     status |-> post.status,
     metadata |-> post.metadata,
     created_at |-> IsoFormat(post.created_at),
     published_at |-> IsoOpt(post.published_at),
     error_message |-> post.error_message]

\* the text of an isoformat() string: fields of fixed width, zero-padded
IsoText(s) == <<s[2] \div 10, s[2] % 10>>

\* str.__lt__ on two isoformat() strings: the first differing character decides
StrLess(a, b) ==
    \E i \in 1..Len(IsoText(a)) :
        /\ IsoText(a)[i] < IsoText(b)[i]
        /\ \A j \in 1..(i - 1) : IsoText(a)[j] = IsoText(b)[j]

\* x put into a sorted list behind every element whose key is not greater
InsertByTime(posts, x) ==
    LET n == Cardinality({i \in 1..Len(posts) :
                             ~StrLess(x.scheduled_time, posts[i].scheduled_time)})
    IN  SubSeq(posts, 1, n) \o <<x>> \o SubSeq(posts, n + 1, Len(posts))

\* the list as the loop of line 235 built it
Unsorted(posts) == posts

\* line 254: sorted(posts, key=lambda x: x["scheduled_time"]), a stable sort
RECURSIVE Sorted(_)
Sorted(posts) ==
    IF posts = <<>> THEN <<>>
    ELSE InsertByTime(Sorted(SubSeq(posts, 1, Len(posts) - 1)), posts[Len(posts)])

\* the list returned, with the arguments of the call
QueryReturns(args, value) ==
    [op |-> "get_scheduled_posts", raised |-> FALSE, value |-> value,
     args |-> args]

GetScheduledPosts(platform, status) ==
    /\ LET kept == SelectSeq(scheduled_posts,
                             LAMBDA post : Selected(post, platform, status))
           posts == [i \in 1..Len(kept) |-> PostDict(kept[i])]
       IN  returned' = QueryReturns([platform |-> platform, status |-> status],
                                    Sorted(posts))
    /\ UNCHANGED sched_vars

\* the dict the loop of lines 285-292 builds: one key per value that occurs,
\* with the number of posts that have it
CountBy(posts, field) ==
    [v \in {posts[i][field] : i \in 1..Len(posts)} |->
        Cardinality({i \in 1..Len(posts) : posts[i][field] = v})]

\* dict.get(key, 0)
GetOrZero(d, key) == IF key \in DOMAIN d THEN d[key] ELSE 0

\* a float that is the quotient of two integers
Quotient(p, q) == [num |-> p, den |-> q]

\* the sum of the counts of a dict
RECURSIVE SumOver(_, _)
SumOver(d, keys) ==
    IF keys = {} THEN 0
    ELSE LET key == CHOOSE k \in keys : TRUE
         IN  d[key] + SumOver(d, keys \ {key})

\* the rate with every post of the store in the denominator
RateOverAll(by_status) ==
    LET published == GetOrZero(by_status, PUBLISHED)
        total == SumOver(by_status, DOMAIN by_status)
    IN  IF total > 0 THEN Quotient(published, total) ELSE Quotient(0, 1)

\* lines 294-300: 0.0 unless a post was attempted
SuccessRate(by_status) ==
    LET published == GetOrZero(by_status, PUBLISHED)
        failed == GetOrZero(by_status, FAILED)
        total_attempted == published + failed
    IN  IF total_attempted > 0
        THEN Quotient(published, total_attempted)
        ELSE Quotient(0, 1)

GetPublishingStats ==
    /\ LET by_status == CountBy(scheduled_posts, "status")
           by_platform == CountBy(scheduled_posts, "platform")
       IN  returned' = Returns("get_publishing_stats",
                               [total_posts |-> Len(scheduled_posts),
                                by_status |-> by_status,
                                by_platform |-> by_platform,
                                success_rate |-> SuccessRate(by_status)])
    /\ UNCHANGED sched_vars

(***************************************************************************)
(* The scheduler with its two queries                                      *)
(***************************************************************************)
GetPosts ==
    /\ Budget
    /\ \E platform \in PlatformFilters, status \in StatusFilters :
           GetScheduledPosts(platform, status)
    /\ SchedulerOnly
    /\ UNCHANGED runs

GetStats ==
    /\ Budget
    /\ GetPublishingStats
    /\ SchedulerOnly
    /\ UNCHANGED runs

NextQuery ==
    \/ Schedule \/ Cancel \/ Reschedule \/ Start \/ Resume \/ Clock
    \/ GetPosts \/ GetStats

SpecQuery == Init /\ [][NextQuery]_vars

(***************************************************************************)
(* C21: get_scheduled_posts(platform, status) returns exactly the posts of *)
(* the store that match every filter given (a platform that is None or the *)
(* empty string, and a status that is None, are no filter: then all posts  *)
(* pass), each once and as the store holds it, ordered by scheduled_time   *)
(* ascending, and it leaves the store, the metadata dicts and the file as  *)
(* they were.  platform and status are the arguments of the call, which    *)
(* returned keeps.                                                         *)
(***************************************************************************)
MatchesFilters(i, platform, status) ==
    /\ (platform # None /\ platform # Some("")) =>
           scheduled_posts[i].platform = platform[1]
    /\ status # None => scheduled_posts[i].status = status[1]

ListedOnceInTimeOrder(result, platform, status) ==
    /\ \A i \in 1..Len(scheduled_posts) :
           Cardinality({j \in 1..Len(result) : result[j].post_id = i})
               = IF MatchesFilters(i, platform, status) THEN 1 ELSE 0
    /\ \A j \in 1..Len(result) :
           /\ result[j].post_id \in 1..Len(scheduled_posts)
           /\ result[j].platform = scheduled_posts[result[j].post_id].platform
           /\ result[j].status = scheduled_posts[result[j].post_id].status
           /\ result[j].content = scheduled_posts[result[j].post_id].content
    /\ \A j, k \in 1..Len(result) :
           j < k => scheduled_posts[result[j].post_id].scheduled_time
                        <= scheduled_posts[result[k].post_id].scheduled_time

GetPostsContract ==
    [][returned'.op = "get_scheduled_posts" =>
          LET platform == returned'.args.platform
              status == returned'.args.status
          IN  GetScheduledPosts(platform, status) =>
                  /\ ~returned'.raised
                  /\ ListedOnceInTimeOrder(returned'.value, platform, status)
                  /\ scheduled_posts' = scheduled_posts
                  /\ metadata_heap' = metadata_heap
                  /\ posts_file' = posts_file]_vars

\* a query with a filter returned two posts, the one scheduled later first
\* because its time is smaller, and left out a post of the store
GetPostsContractWitness ==
    /\ returned.op = "get_scheduled_posts"
    /\ Len(returned.value) < Len(scheduled_posts)
    /\ \E j, k \in 1..Len(returned.value) :
           /\ j < k
           /\ returned.value[j].post_id > returned.value[k].post_id
           /\ scheduled_posts[returned.value[j].post_id].scheduled_time
                  < scheduled_posts[returned.value[k].post_id].scheduled_time

(***************************************************************************)
(* C22: get_publishing_stats returns success_rate = P / (P + F), P and F   *)
(* being the numbers of posts of the store with status PUBLISHED and       *)
(* FAILED, and 0 when P + F = 0; the posts that are SCHEDULED or CANCELLED *)
(* have no part in it.  The counts of by_status and those of by_platform   *)
(* each add up to total_posts, which is the number of posts of the store.  *)
(***************************************************************************)
PostsWith(status) ==
    Cardinality({i \in 1..Len(scheduled_posts) : scheduled_posts[i].status = status})

RateIs(rate, p, q) ==
    IF q = 0
    THEN rate.num = 0 /\ rate.den # 0
    ELSE rate.den # 0 /\ rate.num * q = p * rate.den

StatsContract ==
    [][returned'.op = "get_publishing_stats" =>
          (GetPublishingStats =>
              LET stats == returned'.value
              IN  /\ ~returned'.raised
                  /\ RateIs(stats.success_rate, PostsWith(PUBLISHED),
                            PostsWith(PUBLISHED) + PostsWith(FAILED))
                  /\ stats.total_posts = Len(scheduled_posts)
                  /\ SumOver(stats.by_status, DOMAIN stats.by_status)
                         = stats.total_posts
                  /\ SumOver(stats.by_platform, DOMAIN stats.by_platform)
                         = stats.total_posts)]_vars

\* the statistics of a store with a post that was attempted and a post that
\* is SCHEDULED or CANCELLED
StatsContractWitness ==
    /\ returned.op = "get_publishing_stats"
    /\ returned.value.total_posts = Len(scheduled_posts)
    /\ PostsWith(PUBLISHED) + PostsWith(FAILED) >= 1
    /\ PostsWith(SCHEDULED) + PostsWith(CANCELLED) >= 1
    /\ returned.value.success_rate.den
           = PostsWith(PUBLISHED) + PostsWith(FAILED)

(***************************************************************************)
(* The security guard and the kill switch on a disk whose event logs may   *)
(* hold a file that was cut short                                          *)
(***************************************************************************)
LogsAtStart == {EmptyLog, TornLog}

InitAudit ==
    /\ SchedInit
    /\ returned = Returns("import", <<>>)
    /\ kill_switch_file = None
    /\ kill_switch_events \in LogsAtStart
    /\ emergency_backup = {}
    /\ guards = <<NewGuard(kill_switch_file, None, 1)>>
    /\ last_switch = <<"none">>
    /\ security_events \in LogsAtStart
    /\ analysis_log = <<>>
    /\ key_file = Some(GetOrCreateEncryptionKey(None, 1))
    /\ vault = {}
    /\ archives = {}
    /\ AiInit
    /\ runs = NoRuns
    /\ ops = 0

SpecAudit == InitAudit /\ [][NextGuard]_vars

(***************************************************************************)
(* C23: every call of analyze_content_security, on an instance or through  *)
(* the API, appends exactly one entry to the analysis log whatever its     *)
(* outcome (flags, no flags, or blocked by the kill switch), and no step   *)
(* removes or alters an entry that is in the log.                          *)
(***************************************************************************)
AnalysisCall ==
    \E content \in TextInputs, content_id \in ContentIds :
        \/ \E g \in 1..Len(guards) : AnalyzeContentSecurity(g, content, content_id)
        \/ ApiAnalyze(content, content_id)

EveryAnalysisLogged ==
    [][/\ Len(analysis_log') >= Len(analysis_log)
       /\ SubSeq(analysis_log', 1, Len(analysis_log)) = analysis_log
       /\ returned'.op = "analyze_content_security" =>
             (AnalysisCall => Len(analysis_log') = Len(analysis_log) + 1)]_vars

(***************************************************************************)
(* C24: every activation and every deactivation of the kill switch, made   *)
(* through SecurityGuard (on an instance or through the API) or through    *)
(* KillSwitch, appends exactly one event to the event log of the program   *)
(* that made it (security_events for SecurityGuard, kill_switch_events for *)
(* KillSwitch) and leaves the analysis log as it was; and no step changes  *)
(* the sentinel file without appending its event.  A KillSwitch.deactivate *)
(* that finds no sentinel, or one it cannot read, deactivates nothing.     *)
(***************************************************************************)
AuditEvents == Len(security_events.events) + Len(kill_switch_events.events)

SwitchCall ==
    \/ \E reason \in Reasons :
          \/ \E g \in 1..Len(guards) : ActivateKillSwitch(g, reason)
          \/ ApiActivateKillSwitch(reason)
          \/ KillSwitchActivate(reason)
    \/ \E g \in 1..Len(guards) : DeactivateKillSwitch(g)
    \/ ApiDeactivateKillSwitch
    \/ KillSwitchDeactivate /\ kill_switch_file # None /\ kill_switch_file[1].valid

SwitchAudited ==
    [][(SwitchCall \/ kill_switch_file' # kill_switch_file) =>
          /\ AuditEvents' = AuditEvents + 1
          /\ analysis_log' = analysis_log]_vars

(***************************************************************************)
(* create_encrypted_archive                                                *)
(***************************************************************************)
\* the content items given: dicts, with or without a "content_id" key
ItemInputs == {[content_id |-> "c1", text |-> "hello"], [text |-> "namaste"]}

ContentsInputs ==
    {<<>>} \cup {<<item>> : item \in ItemInputs}
           \cup {<<first, second>> : first \in ItemInputs, second \in ItemInputs}

\* line 335: content_item.get("content_id", "unknown")
OriginalId(content_item) ==
    IF "content_id" \in DOMAIN content_item
    THEN content_item.content_id
    ELSE "unknown"

\* line 321: datetime.utcnow().strftime("%Y%m%d_%H%M%S"), the time to the second
Strftime(t) == <<"%Y%m%d_%H%M%S", t>>

\* lines 318-323: the path is made of the language and the second
ArchivePath(language, t) == <<"encrypted", language, "archive", language, Strftime(t)>>

\* uuid4() of the k-th encrypt_content call made by the call in progress: a
\* value no other call gets
Uuid4(k) == <<ops, k>>

\* lines 326-336
EncryptedContents(guard, contents, language, t) ==
    [k \in 1..Len(contents) |->
        LET pair == EncryptWith(guard, JsonDumps(contents[k]), language, t, Uuid4(k))
        IN  [encrypted_data |-> pair.encrypted_data,
             checksum |-> pair.checksum,
             original_id |-> OriginalId(contents[k])]]

\* open(path, 'w') and json.dump: the file at path, made or made anew
WriteFile(files, path, data) ==
    {f \in files : f.path # path} \cup {[path |-> path, data |-> data]}

CreateEncryptedArchive(g, contents, language) ==
    /\ g \in 1..Len(guards)
    /\ LET archive_path == ArchivePath(language, now)
           encrypted_contents ==
               EncryptedContents(guards[g], contents, language, now)
           archive_data == [language |-> language,
                            created_at |-> IsoFormat(now),
                            content_count |-> Len(encrypted_contents),
                            contents |-> encrypted_contents]
       IN  /\ archives' = WriteFile(archives, archive_path, archive_data)
           /\ returned' = GuardReturns("create_encrypted_archive", g,
                                       [contents |-> contents,
                                        language |-> language],
                                       archive_path)
    /\ UNCHANGED <<key_file, vault>>

(***************************************************************************)
(* Archives: instances are made and write archives as the clock advances   *)
(***************************************************************************)
Archive ==
    /\ Budget
    /\ \E g \in 1..Len(guards), contents \in ContentsInputs,
          language \in Languages :
           CreateEncryptedArchive(g, contents, language)
    /\ UNCHANGED <<sched_vars, switch_vars, guard_vars, rate_limits, runs>>

NextArchive == NewInstance \/ Archive \/ Clock

SpecArchive == Init /\ [][NextArchive]_vars

(***************************************************************************)
(* C25: an archive file is written once: a file that a call of             *)
(* create_encrypted_archive has written is there, with the same content,   *)
(* after every later call, for the same language or another one, in the    *)
(* same second or a later one.  The archive a call writes holds one        *)
(* {encrypted_data, checksum, original_id} entry for each item given, in   *)
(* the order given, and content_count is the number of its entries.        *)
(***************************************************************************)
ArchiveAt(files, path) == CHOOSE f \in files : f.path = path

HoldsItems(archive_data, guard, contents) ==
    /\ archive_data.content_count = Len(archive_data.contents)
    /\ Len(archive_data.contents) = Len(contents)
    /\ \A k \in 1..Len(contents) :
           LET entry == archive_data.contents[k]
               plain == DecryptWith(guard, entry.encrypted_data, entry.checksum)
           IN  /\ DOMAIN entry = {"encrypted_data", "checksum", "original_id"}
               /\ entry.original_id = OriginalId(contents[k])
               /\ ~plain.raised
               /\ plain.value.content = JsonDumps(contents[k])

ArchiveWrittenOnce ==
    [][/\ archives \subseteq archives'
       /\ returned'.op = "create_encrypted_archive" =>
             \A g \in 1..Len(guards), contents \in ContentsInputs,
                language \in Languages :
                 CreateEncryptedArchive(g, contents, language) =>
                     /\ \E f \in archives' : f.path = returned'.value
                     /\ HoldsItems(ArchiveAt(archives', returned'.value).data,
                                   guards[g], contents)]_vars

(***************************************************************************)
(* The checks of analyze_content_security on texts drawn from a            *)
(* vocabulary: a caller holds a text and has it analysed                   *)
(***************************************************************************)
MaxWords == 2

Vocabulary ==
    {"good", "DAMN", "stupid", "heretic", "crusade", "Jihad", "fascist",
     "communist", "deep", "state", "disputed", "hate", "all", "people",
     "undeniable"}

RECURSIVE TextsOfLength(_)
TextsOfLength(n) ==
    IF n = 0 THEN {<<>>}
    ELSE {Append(text, w) : text \in TextsOfLength(n - 1), w \in Vocabulary}

\* longer texts: three keywords of one check, two of another, and a text
\* that every check and every pattern flags
SampleTexts ==
    {<<"heretic", "crusade", "Jihad", "fascist", "communist">>,
     <<"fascist", "communist", "deep", "state", "holy", "war">>,
     <<"DAMN", "stupid", "heretic", "fascist", "disputed", "hate", "all",
       "people", "kill", "every", "one", "undeniable">>}

FlagTexts == UNION {TextsOfLength(n) : n \in 0..MaxWords} \cup SampleTexts

InitFlags ==
    /\ SchedInit
    /\ returned \in {Returns("caller", content) : content \in FlagTexts}
    /\ SwitchInit
    /\ GuardInit
    /\ AiInit
    /\ runs = NoRuns
    /\ ops = 0

AnalyzeText ==
    /\ Budget
    /\ returned.op = "caller"
    /\ \E content_id \in ContentIds :
           AnalyzeContentSecurity(1, returned.value, content_id)
    /\ GuardOnly

NextFlags == AnalyzeText

SpecFlags == InitFlags /\ [][NextFlags]_vars

(***************************************************************************)
(* C27: the severity of a flag follows from the text by fixed rules: every *)
(* hate-speech flag is CRITICAL; a religious-bias or political-bias flag   *)
(* is HIGH when more than 2 keywords of its check occur in the text and    *)
(* MEDIUM when 1 or 2 occur; profanity and misinformation flags are        *)
(* MEDIUM; controversy flags are LOW.  Each keyword check yields at most   *)
(* one flag and each of the four patterns at most one, so an analysis      *)
(* returns at most 8 flags, and none for a text in which nothing matches.  *)
(***************************************************************************)
Hits(keywords, text) ==
    Cardinality({k \in 1..Len(keywords) : Occurs(keywords[k], text)})

FlagsOf(flags, flag_type) ==
    {i \in 1..Len(flags) : flags[i].flag_type = flag_type}

BiasRule(flags, flag_type, keywords, text) ==
    /\ Cardinality(FlagsOf(flags, flag_type)) <= 1
    /\ \A i \in FlagsOf(flags, flag_type) :
           /\ Hits(keywords, text) >= 1
           /\ flags[i].severity = IF Hits(keywords, text) > 2 THEN "high"
                                  ELSE "medium"

NothingMatches(text) ==
    /\ Hits(religious_bias_keywords, text) = 0
    /\ Hits(political_bias_keywords, text) = 0
    /\ Hits(controversy_keywords, text) = 0
    /\ Hits(misinformation_indicators, text) = 0
    /\ \A k \in 1..2 : WordMatches(profanity_patterns[k], text) = <<>>
    /\ \A k \in 1..2 : PhraseMatches(hate_speech_patterns[k], text) = {}

SeverityRules ==
    (returned.op = "analyze_content_security" /\ ~returned.raised) =>
        LET flags == returned.value
            text == Lower(returned.args)
        IN  /\ \A i \in 1..Len(flags) :
                   /\ flags[i].flag_type \in
                          {"profanity", "religious_bias", "political_bias",
                           "controversy", "hate_speech", "misinformation"}
                   /\ flags[i].flag_type = "hate_speech"
                          => flags[i].severity = "critical"
                   /\ flags[i].flag_type \in {"profanity", "misinformation"}
                          => flags[i].severity = "medium"
                   /\ flags[i].flag_type = "controversy"
                          => flags[i].severity = "low"
            /\ BiasRule(flags, "religious_bias", religious_bias_keywords, text)
            /\ BiasRule(flags, "political_bias", political_bias_keywords, text)
            /\ Cardinality(FlagsOf(flags, "controversy")) <= 1
            /\ Cardinality(FlagsOf(flags, "misinformation")) <= 1
            /\ Cardinality(FlagsOf(flags, "profanity")) <= 2
            /\ Cardinality(FlagsOf(flags, "hate_speech")) <= 2
            /\ Len(flags) <= 8
            /\ NothingMatches(text) => flags = <<>>

\* an analysis that returned a HIGH religious-bias flag for three keywords
\* and a MEDIUM political-bias flag for two
SeverityRulesWitness ==
    /\ returned.op = "analyze_content_security"
    /\ ~returned.raised
    /\ Hits(religious_bias_keywords, Lower(returned.args)) = 3
    /\ Hits(political_bias_keywords, Lower(returned.args)) = 2
    /\ \E i, j \in 1..Len(returned.value) :
           /\ returned.value[i].flag_type = "religious_bias"
           /\ returned.value[i].severity = "high"
           /\ returned.value[j].flag_type = "political_bias"
           /\ returned.value[j].severity = "medium"

(***************************************************************************)
(* PlatformSimulator._format_twitter_post.  A string is the sequence of    *)
(* its characters, a character its code point.                             *)
(***************************************************************************)
TwitterLimit == 280

TruncatedLength == 277

\* ord(".")
Dot == 46

\* the longest content given to the formatter
MaxContentLength == 284

\* a content of n characters: lower-case letters, no two neighbours alike
ContentOfLength(n) == [i \in 1..n |-> 97 + (i % 26)]

\* a content that is full stops all through
DotsOfLength(n) == [i \in 1..n |-> Dot]

FormatInputs ==
    {ContentOfLength(n) : n \in 0..MaxContentLength}
        \cup {DotsOfLength(n) : n \in (TwitterLimit - 1)..(TwitterLimit + 1)}

\* content[:n]
Prefix(content, n) == SubSeq(content, 1, IF n < Len(content) THEN n ELSE Len(content))

\* the payload with the ellipsis put behind the first 280 characters
FormatKeepingLimit(content, metadata) ==
    [text |-> IF Len(content) > TwitterLimit
              THEN Prefix(content, TwitterLimit) \o <<Dot, Dot, Dot>>
              ELSE content,
     media |-> <<>>,
     reply_settings |-> "everyone"]

\* lines 111-118; metadata is a dict without "media_urls"
FormatTwitterPost(content, metadata) ==
    [text |-> IF Len(content) > TwitterLimit
              THEN Prefix(content, TruncatedLength) \o <<Dot, Dot, Dot>>
              ELSE content,
     media |-> <<>>,
     reply_settings |-> "everyone"]

\* line 64 of simulate_publish, for a twitter post
FormatContent ==
    /\ Budget
    /\ returned.op = "caller"
    /\ returned' = [op |-> "_format_twitter_post", raised |-> FALSE,
                    value |-> FormatTwitterPost(returned.value, EmptyDict),
                    args |-> returned.value]
    /\ UNCHANGED <<sched_vars, switch_vars, guard_vars, crypto_vars,
                   rate_limits, runs>>

InitFormat ==
    /\ SchedInit
    /\ returned \in {Returns("caller", content) : content \in FormatInputs}
    /\ SwitchInit
    /\ GuardInit
    /\ AiInit
    /\ runs = NoRuns
    /\ ops = 0

NextFormat == FormatContent

SpecFormat == InitFormat /\ [][NextFormat]_vars

(***************************************************************************)
(* C28: for every content the text of the Twitter payload has length at    *)
(* most 280: a content of length <= 280 is sent as it is, and a longer one *)
(* as its first 277 characters followed by "...", which is 280 characters. *)
(***************************************************************************)
TwitterTextWithinLimit ==
    returned.op = "_format_twitter_post" =>
        LET content == returned.args
            text == returned.value.text
        IN  /\ Len(text) <= 280
            /\ Len(content) <= 280 => text = content
            /\ Len(content) > 280 =>
                   /\ Len(text) = 280
                   /\ \A i \in 1..277 : text[i] = content[i]
                   /\ \A i \in 278..280 : text[i] = 46

\* a content of more than 280 characters was cut to 280
TwitterTextWithinLimitWitness ==
    /\ returned.op = "_format_twitter_post"
    /\ Len(returned.args) > 280
    /\ Len(returned.value.text) = 280
    /\ returned.value.text[277] = returned.args[277]
    /\ returned.value.text[278] = 46
    /\ returned.value.text # returned.args

(***************************************************************************)
(* C26: no step of the scheduler (schedule_post, a sweep, cancel,          *)
(* reschedule, with sweeps suspended or not) changes the post_id,          *)
(* content_id, platform, content or created_at of a post of the store, and *)
(* none removes a post: the ids of the store only grow in number and the   *)
(* five fields keep the values schedule_post gave them.                    *)
(***************************************************************************)
IdentityKept(before, after) ==
    /\ after.post_id = before.post_id
    /\ after.content_id = before.content_id
    /\ after.platform = before.platform
    /\ after.content = before.content
    /\ after.created_at = before.created_at

PostsKeepIdentity ==
    [][/\ Len(scheduled_posts') >= Len(scheduled_posts)
       /\ \A i \in 1..Len(scheduled_posts) :
              IdentityKept(scheduled_posts[i], scheduled_posts'[i])]_vars

\* one post was published by a sweep and another cancelled, and both are in
\* the store under the ids they were given
PostsKeepIdentityWitness ==
    /\ Len(scheduled_posts) >= 2
    /\ \E i, j \in 1..Len(scheduled_posts) :
           /\ scheduled_posts[i].status = PUBLISHED
           /\ scheduled_posts[i].post_id = i
           /\ scheduled_posts[i].published_at # None
           /\ scheduled_posts[j].status = CANCELLED
           /\ scheduled_posts[j].post_id = j

(***************************************************************************)
(* C29: a sweep changes only the posts it publishes.  When a sweep that    *)
(* ran alone returns, every post that was not due when it started (not     *)
(* SCHEDULED, or with its scheduled_time in the future) has its fields as  *)
(* they were; and the result of publishing a post is merged into the       *)
(* metadata of that post alone: the publish result that the metadata of a  *)
(* post holds, if any, is the result of publishing that post, also when    *)
(* two posts were scheduled with the same dict.                            *)
(***************************************************************************)
ResultIn(i) == metadata_heap[scheduled_posts[i].metadata].result

OwnResultOnly(i) ==
    ResultIn(i) # None =>
        ResultIn(i)[1].platform_post_id[2] = scheduled_posts[i].post_id

SweepLeavesOthersAlone ==
    /\ \A i \in 1..Len(scheduled_posts) : OwnResultOnly(i)
    /\ (SweepReturned /\ runs.alone) =>
           \A i \in 1..Len(runs.start) :
               ~DueAtStart(i) => scheduled_posts[i] = runs.start[i]

(***************************************************************************)
(* The AI model manager: callers generate content while the minutes pass.  *)
(* A behaviour ends once a counter is MaxExcess over its limit.            *)
(***************************************************************************)
MaxExcess == 1

\* whether each provider answers the request it is sent
ResponseInputs == [Providers -> BOOLEAN]

Generate ==
    /\ \A provider \in Providers :
           rate_limits[provider].requests < RequestsPerMinute(provider) + MaxExcess
    /\ \E responses \in ResponseInputs : GenerateContent(responses)
    /\ UNCHANGED <<sched_vars, switch_vars, guard_vars, crypto_vars, runs, ops>>

NextAi == Generate \/ Clock

SpecAi == Init /\ [][NextAi]_vars

(***************************************************************************)
(* C30: within one rate-limit window, from one reset of a provider's       *)
(* counter by _check_rate_limit to the next, the number of requests that   *)
(* generate_content issues to the provider is at most the provider's       *)
(* requests_per_minute, also when both providers are at their limit and    *)
(* when the first provider's call fails and the other is tried as          *)
(* fallback.  rate_limits[provider].requests is that number: it is 0 at a  *)
(* reset and every request to the provider adds one to it.                 *)
(***************************************************************************)
WithinRateLimit ==
    \A provider \in Providers :
        rate_limits[provider].requests <= RequestsPerMinute(provider)
====
